---- MODULE Spec2Model ----
(***************************************************************************)
(* A model of src/server.py: the llm_search tool (search, then optional    *)
(* crawl of the organic results, then trimming), the request shaping of    *)
(* search_light, the enrichment loop of crawl_all and the signal handler   *)
(* that closes the crawler pool.                                           *)
(*                                                                         *)
(* Python values are written as strings: "None", "True", "False", "0",     *)
(* "1", ... so that one payload can hold values of every parameter type.   *)
(* Python lists are sequences; list indices are 1-based here (0-based in   *)
(* the source).                                                            *)
(***************************************************************************)
EXTENDS Integers, Sequences, FiniteSets, TLC

VARIABLES
    pc,            \* where the current llm_search invocation is
    crawl,         \* the crawl argument of the invocation
    payload,       \* the query parameters of the outgoing search request
    searchCalls,   \* search requests issued by the invocation
    raw,           \* the search response as received (history)
    search_result, \* llm_search's local: the response, its list mutated in place
    url_to_idx,    \* crawl_all's local
    fetchLog,      \* the calls of dynamic_crawl_multi_urls made by the invocation
    fetchOutcome,  \* "none" | "raised" | "returned"
    page_sources,  \* the batch response, in its iteration order
    output,        \* what llm_search returned
    error,         \* the exception that left llm_search, "" if none
    closeCalls,    \* calls of crawler_pool.close()
    serp_api_key,  \* os.getenv("SERP_API_KEY")
    args           \* the arguments of a direct search_light call

vars == <<pc, crawl, payload, searchCalls, raw, search_result, url_to_idx,
          fetchLog, fetchOutcome, page_sources, output, error, closeCalls,
          serp_api_key, args>>

\* Bounds of the model.
MaxResults == 3
MaxSignals == 2

\* total_time=8 in llm_search's call of crawl_all.
TotalTime == 8
SIGINT == 2
SIGTERM == 15

None == "None"
Empty == <<>>

\* Python truthiness of a value (None, False, 0 and "" are falsy).
Truthy(v) == v \notin {"None", "False", "0", ""}

Max(S) == CHOOSE x \in S : \A y \in S : y <= x

(***************************************************************************)
(* search_light: request shaping.                                          *)
(***************************************************************************)
OptionalParams == {"safe", "nfpr", "filter", "start", "num", "device",
                   "no_cache", "async", "zero_trace"}

\* if location: q = q + ", location: %s" % location
QueryText(q, location) ==
    IF Truthy(location) THEN q \o ", location: " \o location ELSE q

\* The payload dict before the None values are removed. a is the record of
\* the function's arguments (aasync is sent under the key "async").
FullPayload(a) ==
    [k \in {"engine", "q", "api_key"} \cup OptionalParams |->
        CASE k = "engine"     -> "google_light"
          [] k = "q"          -> QueryText(a.q, a.location)
          [] k = "api_key"    -> serp_api_key
          [] k = "safe"       -> a.safe
          [] k = "nfpr"       -> a.nfpr
          [] k = "filter"     -> a.filter
          [] k = "start"      -> a.start
          [] k = "num"        -> a.num
          [] k = "device"     -> a.device
          [] k = "no_cache"   -> a.no_cache
          [] k = "async"      -> a.aasync
          [] k = "zero_trace" -> a.zero_trace]

\* A mutant: the filter keeps only truthy values.
RemoveFalsyValues(p) ==
    [k \in {x \in DOMAIN p : Truthy(p[x])} |-> p[k]]

\* payload = {k: v for k, v in payload.items() if v is not None}
RemoveNoneValues(p) ==
    [k \in {x \in DOMAIN p : p[x] # None} |-> p[k]]

Payload(a) == RemoveNoneValues(FullPayload(a))

\* The defaults of search_light's parameters.
NoArgs == [q |-> "", location |-> None, safe |-> None, nfpr |-> None,
           filter |-> None, start |-> None, num |-> None, device |-> None,
           no_cache |-> None, aasync |-> None, zero_trace |-> None]

\* llm_search passes query, location and start only; the other parameters
\* keep their defaults.
LlmSearchArgs(query, location, start) ==
    [NoArgs EXCEPT !.q = query, !.location = location, !.start = start]

(***************************************************************************)
(* The search response and the pages of the batch fetch.                   *)
(***************************************************************************)
\* The organic results a response may carry: two of them share a link.
Hits == { [link |-> "u1", title |-> "t1", snippet |-> "s1"],
          [link |-> "u1", title |-> "t2", snippet |-> "s2"],
          [link |-> "u2", title |-> "t3", snippet |-> "s3"],
          [link |-> "u3", title |-> "t4", snippet |-> "s4"] }

SeqsUpTo(S, n) == UNION { [1..m -> S] : m \in 0..n }

AnswerBox == [answer |-> "42"]
Metadata == [status |-> "Success"]

\* A response of the search API: organic_results, answer_box and other
\* top-level fields are each present or not.
Response(hasOrganic, hits, hasAnswer, hasExtra) ==
    [k \in (IF hasOrganic THEN {"organic_results"} ELSE {})
           \cup (IF hasAnswer THEN {"answer_box"} ELSE {})
           \cup (IF hasExtra THEN {"search_metadata"} ELSE {}) |->
        CASE k = "organic_results" -> hits
          [] k = "answer_box"      -> AnswerBox
          [] k = "search_metadata" -> Metadata]

SearchResponses ==
    { Response(TRUE, h, a, x) : h \in SeqsUpTo(Hits, MaxResults),
                                a \in BOOLEAN, x \in BOOLEAN }
    \cup { Response(FALSE, <<>>, a, x) : a \in BOOLEAN, x \in BOOLEAN }

\* Page markup is a sequence of elements; the fetcher may also hand back a
\* value that is no markup at all, which the parser rejects.
PageOf(u) == [kind |-> "html",
              elems |-> << [tag |-> "nav", text |-> "menu"],
                           [tag |-> "p", text |-> "page " \o u],
                           [tag |-> "script", text |-> "js"] >>]
NonePage == [kind |-> "none", elems |-> <<>>]


Orders(S) == { o \in [1..Cardinality(S) -> S] :
                 \A i, j \in 1..Cardinality(S) : o[i] = o[j] => i = j }

\* What dynamic_crawl_multi_urls may return for the requested urls: a dict
\* holding any subset of them, in any iteration order, each with markup or
\* with a value that is no markup.
BatchResponses(urls) ==
    UNION { { [i \in 1..Cardinality(T) |->
                 [url |-> o[i],
                  page_source |-> IF o[i] \in G THEN PageOf(o[i]) ELSE NonePage]] :
              o \in Orders(T), G \in SUBSET T } :
            T \in SUBSET { urls[i] : i \in DOMAIN urls } }

(***************************************************************************)
(* crawl_all.                                                              *)
(***************************************************************************)
Links(results) == { results[i].link : i \in DOMAIN results }

\* for idx, res in enumerate(organic_results): url_to_idx[res["link"]] = idx
\* (a later result carrying the same link overwrites the earlier index).
UrlToIdx(results) ==
    [u \in Links(results) |->
        Max({ i \in DOMAIN results : results[i].link = u })]

\* A mutant: one url per result, duplicates kept.
RECURSIVE LinkList(_)
LinkList(results) ==
    IF results = <<>> THEN <<>>
    ELSE <<Head(results).link>> \o LinkList(Tail(results))

\* list(url_to_idx.keys()): the distinct links, in the order of their first
\* insertion.
RECURSIVE UrlList(_)
UrlList(results) ==
    IF results = <<>> THEN <<>>
    ELSE LET front == UrlList(SubSeq(results, 1, Len(results) - 1))
             last  == results[Len(results)].link
         IN IF last \in { front[i] : i \in DOMAIN front }
            THEN front ELSE Append(front, last)

\* The call crawl_all makes: dynamic_crawl_multi_urls(urls, wait_time=0,
\* total_time=total_time), on the pool as it is then.
FetchCall(results, total_time) ==
    [urls |-> UrlList(results), wait_time |-> 0, total_time |-> total_time,
     pool_closed |-> closeCalls > 0]

Denylist == {"nav", "footer", "aside", "script", "style", "form"}

\* BeautifulSoup(page_source, "html.parser") raises on what is no markup.
Parses(page_source) == page_source.kind = "html"

\* for tag in soup([...]): tag.decompose()
Decompose(elems) == SelectSeq(elems, LAMBDA e : e.tag \notin Denylist)

\* html2text.html2text(soup.prettify()): the text of the elements left.
RECURSIVE Html2Text(_)
Html2Text(elems) ==
    IF elems = <<>> THEN ""
    ELSE Head(elems).text \o "\n\n" \o Html2Text(Tail(elems))

Markdown(page_source) == Html2Text(Decompose(page_source.elems))

HasText(res) == "text_content" \in DOMAIN res

\* res["text_content"] = markdown
SetText(res, markdown) ==
    [k \in DOMAIN res \cup {"text_content"} |->
        IF k = "text_content" THEN markdown ELSE res[k]]

\* A mutant: the text is attached to every result, not to the one looked up
\* by url.
ExtractPageIntoAll(results, idx, url, page_source) ==
    IF ~Parses(page_source) THEN results
    ELSE [i \in DOMAIN results |-> SetText(results[i], Markdown(page_source))]

\* A mutant: the result is rebuilt from its link and the text.
ExtractPageRebuild(results, idx, url, page_source) ==
    IF ~Parses(page_source) \/ url \notin DOMAIN idx THEN results
    ELSE [results EXCEPT ![idx[url]] =
            [link |-> url, text_content |-> Markdown(page_source)]]

\* The body of the loop over page_sources.items(): any exception in it is
\* caught and logged, and leaves the results as they are.
ExtractPage(results, idx, url, page_source) ==
    IF ~Parses(page_source) THEN results
    ELSE IF url \notin DOMAIN idx THEN results
    ELSE [results EXCEPT ![idx[url]] = SetText(@, Markdown(page_source))]

\* A mutant: the first page that fails ends the loop.
RECURSIVE ExtractPagesAbort(_, _, _)
ExtractPagesAbort(results, idx, pages) ==
    IF pages = <<>> THEN results
    ELSE IF ~Parses(Head(pages).page_source) THEN results
    ELSE ExtractPagesAbort(
             ExtractPage(results, idx, Head(pages).url, Head(pages).page_source),
             idx, Tail(pages))

\* for url, page_source in page_sources.items(): ...
RECURSIVE ExtractPages(_, _, _)
ExtractPages(results, idx, pages) ==
    IF pages = <<>> THEN results
    ELSE ExtractPages(
             ExtractPage(results, idx, Head(pages).url, Head(pages).page_source),
             idx, Tail(pages))

(***************************************************************************)
(* llm_search.                                                             *)
(***************************************************************************)
\* A mutant: nothing is dropped.
KeepAll(result) == result

\* {k: v for k, v in search_result.items() if k in ("answer_box", "organic_results")}
Trim(result) ==
    [k \in DOMAIN result \cap {"answer_box", "organic_results"} |-> result[k]]

\* A mutant: crawl unless the argument was left out.
CrawlIsSet(c) == c # None

\* if crawl:
ShouldCrawl(c) == Truthy(c)

\* if not organic_results: return
SkipsCrawl(results) == results = <<>>

CrawlArgs == {"True", "False", None}
LlmQueries == {"weather today"}

\* The state of an invocation that has not reached the search response.
Fresh ==
    /\ raw' = Empty
    /\ search_result' = Empty
    /\ url_to_idx' = Empty
    /\ fetchLog' = <<>>
    /\ fetchOutcome' = "none"
    /\ page_sources' = <<>>
    /\ output' = Empty
    /\ error' = ""

\* A tool invocation starts: llm_search runs up to the await of the search
\* request that search_light sends.
Invoke ==
    /\ pc \in {"idle", "done", "failed"}
    /\ \E query \in LlmQueries, c \in CrawlArgs :
          /\ crawl' = c
          /\ args' = LlmSearchArgs(query, None, None)
          /\ payload' = Payload(LlmSearchArgs(query, None, None))
    /\ searchCalls' = 1
    /\ pc' = "searching"
    /\ Fresh
    /\ UNCHANGED <<closeCalls, serp_api_key>>

\* The search request fails (non-2xx status, or the 10 s timeout): the
\* exception leaves search_light and llm_search.
SearchFail ==
    /\ pc = "searching"
    /\ pc' = "failed"
    /\ error' = "SearchRequestError"
    /\ UNCHANGED <<crawl, payload, searchCalls, raw, search_result, url_to_idx,
                   fetchLog, fetchOutcome, page_sources, output, closeCalls,
                   serp_api_key, args>>

\* The search response arrives. llm_search runs on: without crawl it trims
\* and returns; with crawl it enters crawl_all, which returns at once on an
\* empty list and otherwise issues the batch fetch.
SearchOk ==
    /\ pc = "searching"
    /\ \E resp \in SearchResponses :
          /\ raw' = resp
          /\ search_result' = resp
          /\ IF ~ShouldCrawl(crawl)
             THEN /\ pc' = "done"
                  /\ output' = Trim(resp)
                  /\ UNCHANGED <<url_to_idx, fetchLog, error>>
             ELSE IF "organic_results" \notin DOMAIN resp
             THEN /\ pc' = "failed"
                  /\ error' = "KeyError"
                  /\ UNCHANGED <<url_to_idx, fetchLog, output>>
             ELSE IF SkipsCrawl(resp["organic_results"])
             THEN /\ pc' = "done"
                  /\ output' = Trim(resp)
                  /\ UNCHANGED <<url_to_idx, fetchLog, error>>
             ELSE /\ pc' = "fetching"
                  /\ url_to_idx' = UrlToIdx(resp["organic_results"])
                  /\ fetchLog' = Append(fetchLog,
                                    FetchCall(resp["organic_results"], TotalTime))
                  /\ UNCHANGED <<output, error>>
    /\ UNCHANGED <<crawl, payload, searchCalls, fetchOutcome, page_sources,
                   closeCalls, serp_api_key, args>>

\* dynamic_crawl_multi_urls raises: the except clause logs, and the loop
\* that follows reads page_sources, which was never bound.
FetchRaise ==
    /\ pc = "fetching"
    /\ fetchOutcome' = "raised"
    /\ pc' = "failed"
    /\ error' = "UnboundLocalError"
    /\ UNCHANGED <<crawl, payload, searchCalls, raw, search_result, url_to_idx,
                   fetchLog, page_sources, output, closeCalls, serp_api_key,
                   args>>

\* dynamic_crawl_multi_urls returns: the pages are extracted one by one,
\* crawl_all returns, llm_search trims and returns.
FetchReturn ==
    /\ pc = "fetching"
    /\ \E pages \in BatchResponses(fetchLog[Len(fetchLog)].urls) :
          /\ page_sources' = pages
          /\ search_result' =
                [search_result EXCEPT !["organic_results"] =
                    ExtractPages(@, url_to_idx, pages)]
    /\ fetchOutcome' = "returned"
    /\ output' = Trim(search_result')
    /\ pc' = "done"
    /\ UNCHANGED <<crawl, payload, searchCalls, raw, url_to_idx, fetchLog,
                   error, closeCalls, serp_api_key, args>>

\* shutdown(signum, frame), the handler of SIGINT and SIGTERM: it closes the
\* pool and returns; the server keeps running.
Shutdown ==
    /\ closeCalls < MaxSignals
    /\ \E signum \in {SIGINT, SIGTERM} : closeCalls' = closeCalls + 1
    /\ UNCHANGED <<pc, crawl, payload, searchCalls, raw, search_result,
                   url_to_idx, fetchLog, fetchOutcome, page_sources, output,
                   error, serp_api_key, args>>

Init ==
    /\ pc = "idle"
    /\ crawl = None
    /\ payload = Empty
    /\ searchCalls = 0
    /\ raw = Empty
    /\ search_result = Empty
    /\ url_to_idx = Empty
    /\ fetchLog = <<>>
    /\ fetchOutcome = "none"
    /\ page_sources = <<>>
    /\ output = Empty
    /\ error = ""
    /\ closeCalls = 0
    /\ serp_api_key = "key"
    /\ args = NoArgs

Next == Invoke \/ SearchFail \/ SearchOk \/ FetchRaise \/ FetchReturn \/ Shutdown

Spec == Init /\ [][Next]_vars


(***************************************************************************)
(* search_light called on its own, with any combination of arguments.      *)
(***************************************************************************)
SearchLightArgs ==
    [q : {"weather today"}, location : {None, "", "Paris"},
     safe : {None, "active", "off"}, nfpr : {None, "0", "1"},
     filter : {None, "0", "1"}, start : {None, "0", "10"},
     num : {None, "10"}, device : {None, "mobile"},
     no_cache : {None, "False", "True"}, aasync : {None, "False", "True"},
     zero_trace : {None, "False", "True"}]

InitReq ==
    /\ pc = "idle"
    /\ crawl = None
    /\ payload = Empty
    /\ searchCalls = 0
    /\ raw = Empty
    /\ search_result = Empty
    /\ url_to_idx = Empty
    /\ fetchLog = <<>>
    /\ fetchOutcome = "none"
    /\ page_sources = <<>>
    /\ output = Empty
    /\ error = ""
    /\ closeCalls = 0
    /\ serp_api_key \in {None, "key"}
    /\ args \in SearchLightArgs

\* search_light builds the payload and sends the request.
SearchLightCall ==
    /\ pc = "idle"
    /\ payload' = Payload(args)
    /\ searchCalls' = 1
    /\ pc' = "searching"
    /\ UNCHANGED <<crawl, raw, search_result, url_to_idx, fetchLog,
                   fetchOutcome, page_sources, output, error, closeCalls,
                   serp_api_key, args>>

NextReq == SearchLightCall

SpecReq == InitReq /\ [][NextReq]_vars

(***************************************************************************)
(* The claims.                                                             *)
(***************************************************************************)
Results == search_result["organic_results"]
Input == raw["organic_results"]
FetchedUrls == { page_sources[k].url : k \in DOMAIN page_sources }
Fetched == fetchOutcome = "returned"

\* C1: if the batch fetch raises on a non-empty result list, crawl_all
\* returns normally with the results unchanged, and llm_search completes
\* and returns the trimmed search result.
C1_BatchFailureDegrades ==
    fetchOutcome = "raised" =>
        /\ pc = "done"
        /\ error = ""
        /\ Results = Input
        /\ output = Trim(raw)

\* C2: when several results carry the same link and that url is fetched and
\* extracted, every one of them has text_content, all with the same text.
C2_DuplicatesAllGetText ==
    (Fetched /\ pc = "done") =>
        \A i, j \in DOMAIN Results :
            ( /\ Results[i].link = Results[j].link
              /\ \E k \in DOMAIN page_sources :
                    /\ page_sources[k].url = Results[i].link
                    /\ Parses(page_sources[k].page_source) )
            => /\ HasText(Results[i])
               /\ HasText(Results[j])
               /\ Results[i].text_content = Results[j].text_content

\* C3: for a batch response covering the urls S, only results whose link is
\* in S carry text_content, every result whose link is not in S is exactly
\* as it was, and crawl_all raises nothing.
C3_OnlyFetchedGetText ==
    Fetched =>
        /\ pc = "done"
        /\ error = ""
        /\ DOMAIN Results = DOMAIN Input
        /\ \A i \in DOMAIN Results :
              /\ HasText(Results[i]) => Results[i].link \in FetchedUrls
              /\ Results[i].link \notin FetchedUrls => Results[i] = Input[i]

C3_Witness ==
    /\ Fetched
    /\ \E i, j \in DOMAIN Results :
          /\ Results[i].link \in FetchedUrls
          /\ HasText(Results[i])
          /\ Results[j].link \notin FetchedUrls

\* C4: if extraction raises for one page of the response, crawl_all does
\* not raise, no result of that page has text_content, and every page whose
\* extraction succeeds has its text on its result, wherever the failing
\* page stands in the iteration order.
C4_FailureIsolated ==
    Fetched =>
        /\ pc = "done"
        /\ error = ""
        /\ \A k \in DOMAIN page_sources :
              LET p == page_sources[k] IN
              IF p.page_source.kind = "html"
              THEN \E i \in DOMAIN Results :
                      /\ Results[i].link = p.url
                      /\ HasText(Results[i])
                      /\ Results[i].text_content = "page " \o p.url \o "\n\n"
              ELSE \A i \in DOMAIN Results :
                      Results[i].link = p.url => ~HasText(Results[i])

C4_Witness ==
    /\ Fetched
    /\ Len(page_sources) = 3
    /\ page_sources[1].page_source.kind = "html"
    /\ page_sources[2].page_source.kind = "none"
    /\ page_sources[3].page_source.kind = "html"
    /\ \E i \in DOMAIN Results :
          Results[i].link = page_sources[3].url /\ HasText(Results[i])

\* C5: after crawl_all, and in the output of llm_search, the results are as
\* many as in the search response, with the link, title and snippet of each
\* position as in the response; only text_content is added.
C5_OrderPreserved ==
    (pc \in {"fetching", "done", "failed"} /\ "organic_results" \in DOMAIN raw) =>
        /\ Len(Results) = Len(Input)
        /\ \A i \in DOMAIN Input :
              /\ DOMAIN Results[i] \subseteq DOMAIN Input[i] \cup {"text_content"}
              /\ \A f \in DOMAIN Input[i] :
                    f \in DOMAIN Results[i] /\ Results[i][f] = Input[i][f]
        /\ pc = "done" => output["organic_results"] = Results

C5_Witness ==
    /\ pc = "done"
    /\ Fetched
    /\ Len(Input) = 3
    /\ Input[1].link # Input[2].link
    /\ \E i \in DOMAIN Results : HasText(Results[i])
    /\ \E i \in DOMAIN Results : ~HasText(Results[i])

\* The search of the invocation has returned a response.
SearchReturned ==
    \/ pc \in {"fetching", "done"}
    \/ pc = "failed" /\ error # "SearchRequestError"

\* C6: the search is issued first and once; the batch fetch is issued only
\* after the search returned, only when crawl is true, with a total time
\* of 8; a failed search fails the invocation with no batch fetch; without
\* crawl there is no batch fetch and no result has text_content.
C6_SearchFirstThenFetch ==
    /\ searchCalls <= 1
    /\ pc # "idle" => searchCalls = 1
    /\ Len(fetchLog) <= 1
    /\ \A n \in DOMAIN fetchLog :
          /\ SearchReturned
          /\ crawl = "True"
          /\ fetchLog[n].total_time = 8
    /\ error = "SearchRequestError" =>
          /\ pc = "failed"
          /\ fetchLog = <<>>
          /\ output = Empty
    /\ crawl # "True" =>
          /\ fetchLog = <<>>
          /\ \A k \in DOMAIN search_result :
                k = "organic_results" =>
                    \A i \in DOMAIN Results : ~HasText(Results[i])
          /\ (pc = "done" /\ "organic_results" \in DOMAIN output) =>
                \A i \in DOMAIN output["organic_results"] :
                    ~HasText(output["organic_results"][i])

C6_Witness ==
    /\ pc = "done"
    /\ crawl = "True"
    /\ searchCalls = 1
    /\ Len(fetchLog) = 1
    /\ \E i \in DOMAIN Results : HasText(Results[i])

\* C7: the keys of the object llm_search returns are among answer_box and
\* organic_results, whatever else the search response held and whether or
\* not crawling ran, and their values are those of the response
\* (organic_results possibly annotated).
C7_Trimmed ==
    pc = "done" =>
        /\ DOMAIN output \subseteq {"answer_box", "organic_results"}
        /\ DOMAIN output = DOMAIN raw \cap {"answer_box", "organic_results"}
        /\ "answer_box" \in DOMAIN output =>
              output["answer_box"] = raw["answer_box"]
        /\ "organic_results" \in DOMAIN output =>
              /\ Len(output["organic_results"]) = Len(Input)
              /\ \A i \in DOMAIN Input : \A f \in DOMAIN Input[i] :
                    /\ f \in DOMAIN output["organic_results"][i]
                    /\ output["organic_results"][i][f] = Input[i][f]

C7_Witness ==
    /\ pc = "done"
    /\ Fetched
    /\ DOMAIN raw = {"answer_box", "organic_results", "search_metadata"}
    /\ \E i \in DOMAIN Results : HasText(Results[i])

\* The argument search_light sends under the key k.
ArgOf(a, k) == IF k = "async" THEN a.aasync ELSE a[k]

Sent == pc = "searching"

\* C8, as stated: the request holds exactly engine, q and api_key plus each
\* optional field the caller set, with the caller's value; with a location
\* X given the query text is the query followed by ", location: X"; no
\* location parameter is sent.
C8_ExactlySetFields ==
    Sent =>
        /\ DOMAIN payload = {"engine", "q", "api_key"}
                            \cup { k \in OptionalParams : ArgOf(args, k) # None }
        /\ \A k \in OptionalParams \cap DOMAIN payload : payload[k] = ArgOf(args, k)
        /\ payload["engine"] = "google_light"
        /\ payload["q"] = IF args.location = None THEN args.q
                          ELSE args.q \o ", location: " \o args.location
        /\ "location" \notin DOMAIN payload

\* C8, amended: the request holds exactly engine and q, api_key when the
\* key is configured, and each optional field the caller set, with the
\* caller's value (a set False or 0 is sent); with a non-empty location X
\* the query text is the query followed by ", location: X", with no
\* location or an empty one it is the query; no location parameter is sent.
C8_ExactlySetFieldsAmended ==
    Sent =>
        /\ DOMAIN payload = {"engine", "q"}
                            \cup (IF serp_api_key = None THEN {} ELSE {"api_key"})
                            \cup { k \in OptionalParams : ArgOf(args, k) # None }
        /\ \A k \in OptionalParams \cap DOMAIN payload : payload[k] = ArgOf(args, k)
        /\ payload["engine"] = "google_light"
        /\ "api_key" \in DOMAIN payload => payload["api_key"] = serp_api_key
        /\ payload["q"] = IF args.location \in {None, ""} THEN args.q
                          ELSE args.q \o ", location: " \o args.location
        /\ "location" \notin DOMAIN payload

C8_Witness ==
    /\ Sent
    /\ args.location = "Paris"
    /\ args.no_cache = "False"
    /\ args.nfpr = "0"
    /\ args.safe = None
    /\ args.aasync = "True"
    /\ payload["no_cache"] = "False"
    /\ payload["q"] = "weather today, location: Paris"

\* crawl_all was called by the invocation.
CrawlAllCalled ==
    /\ crawl = "True"
    /\ SearchReturned
    /\ "organic_results" \in DOMAIN raw

NoDuplicates(s) == \A i, j \in DOMAIN s : s[i] = s[j] => i = j

OneFullFetch ==
    /\ Len(fetchLog) = 1
    /\ { fetchLog[1].urls[i] : i \in DOMAIN fetchLog[1].urls } = Links(Input)
    /\ NoDuplicates(fetchLog[1].urls)
    /\ fetchLog[1].wait_time = 0
    /\ fetchLog[1].total_time = 8

\* C9, as stated: every call of crawl_all invokes the batch fetcher exactly
\* once, with the distinct links of all results (each once), a settle delay
\* of 0 and the total time it was given.
C9_OneFetchPerCall == CrawlAllCalled => OneFullFetch

\* C9, amended: every call of crawl_all on a non-empty list invokes the
\* batch fetcher exactly once, with the distinct links of all results (each
\* once), a settle delay of 0 and the total time it was given; a call on an
\* empty list invokes it not at all.
C9_OneFetchPerNonEmptyCall ==
    CrawlAllCalled =>
        IF Input = <<>> THEN fetchLog = <<>> ELSE OneFullFetch

C9_Witness ==
    /\ CrawlAllCalled
    /\ pc = "done"
    /\ Fetched
    /\ Len(Input) = 3
    /\ Cardinality(Links(Input)) = 2
    /\ Len(page_sources) = 1
    /\ Len(fetchLog) = 1

\* C10: whatever the interleaving of signals and invocations, close() is
\* called once, and no batch fetch is issued on the pool once it is closed.
C10_ClosedOnceNoFetchAfter ==
    /\ closeCalls <= 1
    /\ \A n \in DOMAIN fetchLog : ~fetchLog[n].pool_closed

====
